---------------------------- MODULE Spec2Model ----------------------------
(***************************************************************************)
(* Lawn Mowing API (src/main.py, src/schemas.py): the six HTTP routes, the *)
(* pricing calculator, the Quote / Booking schema validation and the       *)
(* document store behind create_document / get_documents.                  *)
(*                                                                         *)
(* Money is held as an integer number of 1/10000 dollar, so that every     *)
(* product of the pricing formula is exact: 30.0 is 300000, 0.02 per sqft  *)
(* is 200 per sqft, 3.99 is 39900, and a discount rate is a percentage.    *)
(*                                                                         *)
(* A str whose characters the code inspects (an email, an ISO date) is a   *)
(* sequence of one-character strings; a str of which only the length or    *)
(* the identity matters (zip_code, phone, frequency, an extra's name) is a *)
(* TLA+ string.  An Optional value is None or Some(v).                     *)
(***************************************************************************)
EXTENDS Integers, Sequences, FiniteSets, TLC

VARIABLES
    quote,      \* collection "quote": the stored documents, in insertion order
    booking,    \* collection "booking"
    next_id,    \* the store's id generator: the next ObjectId it hands out
    db,         \* database.db: None, or Some(handle) when the store is configured
    req,        \* the request being answered (route, inputs, environment)
    resp,       \* its response (status, body or detail, components reached)
    issued,     \* history: the ids the creations have returned so far
    running     \* the creations whose handler has built its document and has
                \* not called the store yet, one per worker thread

vars == <<quote, booking, next_id, db, req, resp, issued, running>>

None == [some |-> FALSE]
Some(v) == [some |-> TRUE, val |-> v]

Min(a, b) == IF a < b THEN a ELSE b
Max(a, b) == IF a > b THEN a ELSE b

\* the last document of a collection
Last(coll) == coll[Len(coll)]

RECURSIVE SumSeq(_)
SumSeq(s) == IF s = <<>> THEN 0 ELSE Head(s) + SumSeq(Tail(s))

----------------------------------------------------------------------------
(* The pricing calculator, main.py 52-73.                                  *)

EXTRA_PRICES == [edging |-> 100000, leaf_cleanup |-> 200000, pet_waste |-> 80000]

\* EXTRA_PRICES.get(e, 0)
ExtraPrice(e) == IF e \in DOMAIN EXTRA_PRICES THEN EXTRA_PRICES[e] ELSE 0

\* the rates in percent
FREQUENCY_DISCOUNT == [once |-> 0, biweekly |-> 5, weekly |-> 10]

\* FREQUENCY_DISCOUNT.get(frequency, 0)
DiscountRate(f) == IF f \in DOMAIN FREQUENCY_DISCOUNT THEN FREQUENCY_DISCOUNT[f] ELSE 0

SERVICE_FEE == 39900

MinBase == 300000

PerSqft == 200

calculate_price_nofloor(lawn_size_sqft, frequency, extras) ==
    LET base == lawn_size_sqft * PerSqft
        extras_total == SumSeq([i \in 1..Len(extras) |-> ExtraPrice(extras[i])])
        discount == (base * DiscountRate(frequency)) \div 100
    IN  [base |-> base, extras_total |-> extras_total, discount |-> discount,
         total |-> base - discount + extras_total + SERVICE_FEE]

calculate_price(lawn_size_sqft, frequency, extras) ==
    LET base == Max(MinBase, lawn_size_sqft * PerSqft)
        extras_total == SumSeq([i \in 1..Len(extras) |-> ExtraPrice(extras[i])])
        discount == (base * DiscountRate(frequency)) \div 100
    IN  [base |-> base, extras_total |-> extras_total, discount |-> discount,
         total |-> base - discount + extras_total + SERVICE_FEE]

----------------------------------------------------------------------------
(* Field validation of the schemas, schemas.py 14-49.                      *)

\* the positions of character c in the character sequence s
Positions(s, c) == {i \in 1..Len(s) : s[i] = c}

\* The characters of the model.  A text is a sequence of them.
LowerCase ==
    <<"a", "b", "c", "d", "e", "f", "g", "h", "i", "j", "k", "l", "m",
      "n", "o", "p", "q", "r", "s", "t", "u", "v", "w", "x", "y", "z">>

UpperCase ==
    <<"A", "B", "C", "D", "E", "F", "G", "H", "I", "J", "K", "L", "M",
      "N", "O", "P", "Q", "R", "S", "T", "U", "V", "W", "X", "Y", "Z">>

Letters == {LowerCase[i] : i \in 1..26} \cup {UpperCase[i] : i \in 1..26}

Digits == {"0", "1", "2", "3", "4", "5", "6", "7", "8", "9"}

\* U+0060.  Inside a string a grave accent opens a quotation that runs to the
\* next apostrophe, so the character is taken out of the two-character text.
GraveAccent == SubSeq("`'", 1, 1)

Apostrophe == "'"

\* the characters of an unquoted local part
AText ==
    Letters \cup Digits
    \cup {"!", "#", "$", "%", "&", Apostrophe, "*", "+", "-", "/", "=", "?", "^",
          "_", GraveAccent, "{", "|", "}", "~"}

\* the ASCII control characters that count as whitespace: U+0009 to U+000D
\* and U+001C to U+001F
ControlSpaces == {"\t", "\n", "", "\f", "\r", "", "", "", ""}

\* the characters below U+0080, one byte each in UTF-8
Ascii ==
    AText \cup ControlSpaces
    \cup {" ", "\"", "(", ")", ",", ".", ":", ";", "<", ">", "@", "[", "\\", "]"}

\* letters of two bytes in UTF-8, lower case then upper case
LowerLatin == <<"é", "ë">>

UpperLatin == <<"É", "Ë">>

LatinLetters == {LowerLatin[i] : i \in 1..2} \cup {UpperLatin[i] : i \in 1..2}

\* U+0085 and U+00A0, whitespace of two bytes in UTF-8
LatinSpaces == {"", " "}

\* a character of three bytes in UTF-8
Euro == "€"

Alphabet == Ascii \cup LatinLetters \cup LatinSpaces \cup {Euro}

\* the number of bytes of character c in UTF-8
utf8_size(c) ==
    CASE c \in Ascii -> 1
      [] c \in LatinLetters \cup LatinSpaces -> 2
      [] c = Euro -> 3

\* str.isspace(), which str.strip() and the pattern \s go by.  The
\* whitespace above U+00A0 (U+1680, U+2000 to U+200A, U+2028, U+2029,
\* U+202F, U+205F, U+3000) is not among the characters of the model.
Whitespace == {" "} \cup ControlSpaces \cup LatinSpaces

\* the pattern \w: letters, digits and the underscore
WordChars == Letters \cup LatinLetters \cup Digits \cup {"_"}

\* str.strip(): s without its leading and trailing whitespace
strip(s) ==
    LET kept == {i \in 1..Len(s) : s[i] \notin Whitespace}
    IN  IF kept = {} THEN <<>>
        ELSE SubSeq(s, CHOOSE i \in kept : \A j \in kept : i <= j,
                       CHOOSE i \in kept : \A j \in kept : j <= i)

\* str.lower() of one character
lower(c) ==
    IF \E i \in 1..26 : UpperCase[i] = c
    THEN LowerCase[CHOOSE i \in 1..26 : UpperCase[i] = c]
    ELSE IF \E i \in 1..2 : UpperLatin[i] = c
         THEN LowerLatin[CHOOSE i \in 1..2 : UpperLatin[i] = c]
         ELSE c

\* t is dot-separated runs of the characters of chars, none of them empty
DotAtom(t, chars) ==
    /\ t # <<>>
    /\ \A i \in 1..Len(t) : t[i] \in chars \cup {"."}
    /\ t[1] # "." /\ t[Len(t)] # "."
    /\ \A i \in 1..(Len(t) - 1) : ~(t[i] = "." /\ t[i + 1] = ".")

\* the label of d that follows its last period
LastLabel(d) ==
    LET dots == Positions(d, ".")
    IN  IF dots = {} THEN d
        ELSE SubSeq(d, (CHOOSE i \in dots : \A j \in dots : j <= i) + 1, Len(d))

\* the top-level names that are reserved for special use
SPECIAL_USE_DOMAIN_NAMES ==
    {<<"a", "r", "p", "a">>, <<"i", "n", "v", "a", "l", "i", "d">>,
     <<"l", "o", "c", "a", "l">>, <<"l", "o", "c", "a", "l", "h", "o", "s", "t">>,
     <<"o", "n", "i", "o", "n">>, <<"t", "e", "s", "t">>}

LocalMaxLength == 64

LabelMaxLength == 63

EmailMaxLength == 254

\* the local part: dot-separated runs of AText and letters, at most 64
\* characters
ValidLocal(l) == DotAtom(l, AText \cup LatinLetters) /\ Len(l) <= LocalMaxLength

\* the lower-cased domain: at least two labels of letters, digits and
\* hyphens, no hyphen at either end of a label, a last label that ends in
\* an ASCII letter and is not reserved
ValidDomain(d) ==
    /\ DotAtom(d, Letters \cup LatinLetters \cup Digits \cup {"-"})
    /\ Positions(d, ".") # {}
    /\ d[1] # "-" /\ d[Len(d)] # "-"
    /\ \A i \in Positions(d, ".") : d[i - 1] # "-" /\ d[i + 1] # "-"
    /\ \A i \in 1..Len(d) :
           (i + LabelMaxLength <= Len(d)) =>
               \E j \in i..(i + LabelMaxLength) : d[j] = "."
    /\ d[Len(d)] \in Letters
    /\ LastLabel(d) \notin SPECIAL_USE_DOMAIN_NAMES

\* email_validator.validate_email(e): Some(the normalized address, its
\* domain in lower case), or None where EmailNotValidError is raised
validate_email(e) ==
    LET ats == Positions(e, "@")
    IN  IF Cardinality(ats) # 1 THEN None
        ELSE LET at == CHOOSE i \in ats : TRUE
                 local == SubSeq(e, 1, at - 1)
                 domain == [i \in 1..(Len(e) - at) |-> lower(e[at + i])]
             IN  IF ValidLocal(local) /\ ValidDomain(domain) /\ Len(e) <= EmailMaxLength
                 THEN Some(local \o <<"@">> \o domain)
                 ELSE None

\* the characters of an unquoted display name
NameChars == WordChars \cup AText

\* the "<" from which s matches the pattern
\*     \s* (name | "quoted name")? \s* <(.+)> \s*
\* a ">" is the last character that is not whitespace; between "<" and it
\* lies at least one character and no newline; before "<" lie words of
\* NameChars, or a text between two double quotes, or nothing, with
\* whitespace around
brackets(s) ==
    LET kept == {i \in 1..Len(s) : s[i] \notin Whitespace}
        last == CHOOSE i \in kept : \A j \in kept : j <= i
        named(lt) ==
            LET name == strip(SubSeq(s, 1, lt - 1))
            IN  \/ \A i \in 1..Len(name) : name[i] \in NameChars \cup Whitespace
                \/ Len(name) >= 3 /\ name[1] = "\"" /\ name[Len(name)] = "\""
    IN  IF kept = {} \/ s[last] # ">" THEN {}
        ELSE {lt \in Positions(s, "<") :
                 /\ lt + 1 < last
                 /\ \A i \in (lt + 1)..(last - 1) : s[i] # "\n"
                 /\ named(lt)}

\* the text handed to email_validator (pydantic.networks.validate_email):
\* the address inside the brackets, the quoted name taken as long as it can
\* be, else the text itself; stripped either way
unwrap_email(s) ==
    LET opens == brackets(s)
        kept == {i \in 1..Len(s) : s[i] \notin Whitespace}
    IN  IF opens = {} THEN strip(s)
        ELSE strip(SubSeq(s, (CHOOSE lt \in opens : \A j \in opens : j <= lt) + 1,
                          (CHOOSE i \in kept : \A j \in kept : j <= i) - 1))

MAX_EMAIL_LENGTH == 2048

\* EmailStr (schemas.py 20, 39): Some(the address as the schema holds it),
\* or None where the value is rejected
EmailStr(s) ==
    IF Len(s) > MAX_EMAIL_LENGTH THEN None ELSE validate_email(unwrap_email(s))

\* the email a constructed Quote or Booking holds: the validated address
email_field(v) == IF EmailStr(v).some THEN EmailStr(v).val ELSE v

ZipMinLength == 4

ZipMaxLength == 10

LawnMin == 100

LawnMax == 100000

PhoneMinLength == 7

PhoneMaxLength == 20

\* pattern="^(once|biweekly|weekly)$"
FrequencyPattern(f) == f \in {"once", "biweekly", "weekly"}

\* the fields of a Quote(...) construction that fail their constraint
\* (schemas.py 19-30); the construction raises ValidationError when any does
Quote_errors(d) ==
    {f \in {"email", "zip_code", "lawn_size_sqft", "frequency",
            "base_price", "discount", "extras_total", "service_fee", "total"} :
        CASE f = "email" -> ~EmailStr(d.email).some
          [] f = "zip_code" -> ~(ZipMinLength <= Len(d.zip_code) /\ Len(d.zip_code) <= ZipMaxLength)
          [] f = "lawn_size_sqft" -> ~(LawnMin <= d.lawn_size_sqft /\ d.lawn_size_sqft <= LawnMax)
          [] f = "frequency" -> ~FrequencyPattern(d.frequency)
          [] f = "base_price" -> ~(d.base_price >= 0)
          [] f = "discount" -> ~(d.discount >= 0)
          [] f = "extras_total" -> ~(d.extras_total >= 0)
          [] f = "service_fee" -> ~(d.service_fee >= 0)
          [] f = "total" -> ~(d.total >= 0)}

\* the fields of a Booking(...) construction that fail their constraint
\* (schemas.py 37-49): zip_code carries no length constraint here
Booking_errors(d) ==
    {f \in {"email", "phone", "lawn_size_sqft", "frequency", "price_total"} :
        CASE f = "email" -> ~EmailStr(d.email).some
          [] f = "phone" -> ~(PhoneMinLength <= Len(d.phone) /\ Len(d.phone) <= PhoneMaxLength)
          [] f = "lawn_size_sqft" -> ~(LawnMin <= d.lawn_size_sqft /\ d.lawn_size_sqft <= LawnMax)
          [] f = "frequency" -> ~FrequencyPattern(d.frequency)
          [] f = "price_total" -> ~(d.price_total >= 0)}

----------------------------------------------------------------------------
(* datetime.date: fromisoformat and isoformat, as main.py 138 and 34 call  *)
(* them (Python 3.11: the extended and basic calendar forms and the week   *)
(* forms are parsed; isoformat writes the extended calendar form).         *)

DigitVal == ("0" :> 0) @@ ("1" :> 1) @@ ("2" :> 2) @@ ("3" :> 3) @@ ("4" :> 4) @@
            ("5" :> 5) @@ ("6" :> 6) @@ ("7" :> 7) @@ ("8" :> 8) @@ ("9" :> 9)

DigitChar == <<"0", "1", "2", "3", "4", "5", "6", "7", "8", "9">>

\* characters from..to of s are all digits
AllDigits(s, from, to) == \A i \in from..to : i <= Len(s) /\ s[i] \in Digits

RECURSIVE ToInt(_, _, _)
ToInt(s, from, to) ==
    IF to < from THEN 0 ELSE ToInt(s, from, to - 1) * 10 + DigitVal[s[to]]

is_leap(y) == y % 4 = 0 /\ (y % 100 # 0 \/ y % 400 = 0)

days_in_month(y, m) ==
    IF m = 2 THEN (IF is_leap(y) THEN 29 ELSE 28)
    ELSE IF m \in {4, 6, 9, 11} THEN 30 ELSE 31

MINYEAR == 1

MAXYEAR == 9999

\* date(y, m, d) is constructed, or ValueError is raised
ValidDate(y, m, d) ==
    /\ MINYEAR <= y /\ y <= MAXYEAR
    /\ 1 <= m /\ m <= 12
    /\ 1 <= d /\ d <= days_in_month(y, m)

days_before_year(y) ==
    (y - 1) * 365 + ((y - 1) \div 4) - ((y - 1) \div 100) + ((y - 1) \div 400)

RECURSIVE days_before_month(_, _)
days_before_month(y, m) ==
    IF m = 1 THEN 0 ELSE days_before_month(y, m - 1) + days_in_month(y, m - 1)

ymd2ord(y, m, d) == days_before_year(y) + days_before_month(y, m) + d

\* the Monday that starts ISO week 1 of year y, as an ordinal
isoweek1monday(y) ==
    LET firstday == ymd2ord(y, 1, 1)
        firstweekday == (firstday + 6) % 7
        week1monday == firstday - firstweekday
    IN  IF firstweekday > 3 THEN week1monday + 7 ELSE week1monday

\* the dates with ordinal n; n lies in year y or a neighbour of it
ord2ymd(n, y) ==
    {dt \in [year : {y - 1, y, y + 1}, month : 1..12, day : 1..31] :
        ValidDate(dt.year, dt.month, dt.day) /\ ymd2ord(dt.year, dt.month, dt.day) = n}

\* Some(date) for ISO year / week / weekday, None where ValueError is raised
isoweek_to_gregorian(y, week, wday) ==
    LET first_weekday == ymd2ord(y, 1, 1) % 7
        week_ok == \/ (0 < week /\ week < 53)
                   \/ (week = 53 /\ (first_weekday = 4 \/ (first_weekday = 3 /\ is_leap(y))))
        found == ord2ymd(isoweek1monday(y) + (week - 1) * 7 + (wday - 1), y)
    IN  IF ~(MINYEAR <= y /\ y <= MAXYEAR) \/ ~week_ok \/ ~(0 < wday /\ wday < 8)
           \/ found = {}
        THEN None
        ELSE Some(CHOOSE dt \in found : TRUE)

\* the UTF-8 encoding of s, a sequence of bytes: a character of one byte is
\* that byte, and each byte of a longer character is written as the
\* character, which is no digit, hyphen or "W"
RECURSIVE utf8(_)
utf8(s) ==
    IF s = <<>> THEN <<>>
    ELSE [i \in 1..utf8_size(Head(s)) |-> Head(s)] \o utf8(Tail(s))

\* the byte at position i of b, "" past its end
CharAt(b, i) == IF i <= Len(b) THEN b[i] ELSE ""

\* date.fromisoformat(s): Some(date), or None where ValueError is raised.
\* A text of 7, 8 or 10 bytes is read from the left, and what follows the
\* day is not looked at.
fromisoformat(s) ==
    LET dtstr == utf8(s)
    IN
    IF Len(dtstr) \notin {7, 8, 10} \/ ~AllDigits(dtstr, 1, 4) THEN None
    ELSE
    LET year == ToInt(dtstr, 1, 4)
        uses_separator == dtstr[5] = "-"
        p == IF uses_separator THEN 6 ELSE 5
    IN  IF CharAt(dtstr, p) = "W"
        THEN \* YYYY-?Www(-?D)?
             IF ~AllDigits(dtstr, p + 1, p + 2) THEN None
             ELSE IF p + 2 >= Len(dtstr)
                  THEN isoweek_to_gregorian(year, ToInt(dtstr, p + 1, p + 2), 1)
                  ELSE LET q == IF uses_separator THEN p + 4 ELSE p + 3
                       IN  IF (uses_separator /\ CharAt(dtstr, p + 3) # "-")
                              \/ ~AllDigits(dtstr, q, q)
                           THEN None
                           ELSE isoweek_to_gregorian(year, ToInt(dtstr, p + 1, p + 2),
                                                     ToInt(dtstr, q, q))
        ELSE \* YYYY-?MM-?DD
             LET q == IF uses_separator THEN p + 3 ELSE p + 2
             IN  IF ~AllDigits(dtstr, p, p + 1)
                    \/ (uses_separator /\ CharAt(dtstr, p + 2) # "-")
                    \/ ~AllDigits(dtstr, q, q + 1)
                 THEN None
                 ELSE LET m == ToInt(dtstr, p, p + 1)
                          d == ToInt(dtstr, q, q + 1)
                      IN  IF ValidDate(year, m, d)
                          THEN Some([year |-> year, month |-> m, day |-> d])
                          ELSE None

\* the character of the decimal digit n % 10
Digit(n) == DigitChar[(n % 10) + 1]

----------------------------------------------------------------------------
(* The document store gateway: database.db, create_document and            *)
(* get_documents, which main.py 8 imports.                                 *)

\* bson.ObjectId: the n-th identifier the store generates
ObjectId(n) == [oid |-> n]

\* str(ObjectId): the identifier's text
str_oid(o) == o.oid

\* s[:n], for n >= 0
Take(s, n) == SubSeq(s, 1, Min(n, Len(s)))

DatabaseNotAvailable == <<"D", "a", "t", "a", "b", "a", "s", "e", " ", "n", "o", "t", " ",
                          "a", "v", "a", "i", "l", "a", "b", "l", "e">>

\* the exception a store call raises, if any: the store is not configured,
\* or the call itself fails with `fault`
StoreRaises(fault) == IF ~db.some THEN Some(DatabaseNotAvailable) ELSE fault

Collection(collection_name) == IF collection_name = "quote" THEN quote ELSE booking

\* create_document(collection_name, data): one insert under a fresh id, or
\* an exception and no insert
create_document(collection_name, data, fault) ==
    IF StoreRaises(fault).some
    THEN [raised |-> StoreRaises(fault), quote |-> quote, booking |-> booking,
          next_id |-> next_id]
    ELSE LET doc == [_id |-> ObjectId(next_id)] @@ data
         IN  [raised |-> None, id |-> str_oid(ObjectId(next_id)),
              quote |-> IF collection_name = "quote" THEN Append(quote, doc) ELSE quote,
              booking |-> IF collection_name = "booking" THEN Append(booking, doc) ELSE booking,
              next_id |-> next_id + 1]

\* get_documents(collection_name, {}, limit): the possible outcomes.  The
\* first `limit` documents in insertion order for a positive limit; the
\* contract leaves the result for a limit of 0 or below open, where any
\* leading part of the collection may come back.
get_documents(collection_name, limit, fault) ==
    IF StoreRaises(fault).some
    THEN {[raised |-> StoreRaises(fault)]}
    ELSE IF limit >= 1
         THEN {[raised |-> None, docs |-> Take(Collection(collection_name), limit)]}
         ELSE {[raised |-> None, docs |-> Take(Collection(collection_name), k)] :
                  k \in 0..Len(Collection(collection_name))}

----------------------------------------------------------------------------
(* The handlers of main.py.  A response records its status, its body or    *)
(* detail, the exception that produced it, and the components the request  *)
(* reached.                                                                *)

InternalServerError ==
    <<"I", "n", "t", "e", "r", "n", "a", "l", " ", "S", "e", "r", "v", "e", "r", " ",
      "E", "r", "r", "o", "r">>

\* FastAPI's answer to a body that is not a QuoteInput / BookingInput
\* (main.py 43-50, 109-121): 422 naming the fields, the handler never runs
Unprocessable(fields) ==
    [status |-> 422, raised |-> "RequestValidationError", detail |-> fields,
     reached |-> {}]

\* an exception that leaves the handler uncaught
Unhandled(exc, reached) ==
    [status |-> 500, raised |-> exc, detail |-> InternalServerError, reached |-> reached]

\* raise HTTPException(status_code=500, detail=str(e))
StorageFailure(text, reached) ==
    [status |-> 500, raised |-> "HTTPException", detail |-> text, reached |-> reached]

\* a response that leaves the store as it is
Same(r) == [resp |-> r, quote |-> quote, booking |-> booking, next_id |-> next_id]

\* the response after a store call `ins`
Stored(r, ins) ==
    [resp |-> r, quote |-> ins.quote, booking |-> ins.booking, next_id |-> ins.next_id]

\* "%d-%d-%d": the date without its zero padding
isoformat_unpadded(dt) ==
    << Digit(dt.year \div 1000), Digit(dt.year \div 100), Digit(dt.year \div 10),
       Digit(dt.year), "-" >>
    \o (IF dt.month > 9 THEN <<Digit(dt.month \div 10)>> ELSE <<>>) \o <<Digit(dt.month), "-">>
    \o (IF dt.day > 9 THEN <<Digit(dt.day \div 10)>> ELSE <<>>) \o <<Digit(dt.day)>>

\* date.isoformat(): "%04d-%02d-%02d" (main.py 34)
isoformat(dt) ==
    << Digit(dt.year \div 1000), Digit(dt.year \div 100), Digit(dt.year \div 10),
       Digit(dt.year), "-", Digit(dt.month \div 10), Digit(dt.month), "-",
       Digit(dt.day \div 10), Digit(dt.day) >>

\* serialize_doc (main.py 23-37): _id becomes id, a date its ISO text
serialize_doc(doc) ==
    LET d == [k \in (DOMAIN doc \ {"_id"}) \cup {"id"} |->
                 IF k = "id" THEN str_oid(doc._id) ELSE doc[k]]
    IN  IF "preferred_date" \in DOMAIN d /\ d.preferred_date.some
        THEN [d EXCEPT !.preferred_date = Some(isoformat(d.preferred_date.val))]
        ELSE d

\* the Quote the handler builds (main.py 78-92); its email is the address
\* as EmailStr validated it
quote_doc_of(q) ==
    LET p == calculate_price(q.lawn_size_sqft, q.frequency, q.extras)
    IN  [name |-> q.name, email |-> email_field(q.email), address |-> q.address,
         zip_code |-> q.zip_code, lawn_size_sqft |-> q.lawn_size_sqft,
         frequency |-> q.frequency, extras |-> q.extras,
         base_price |-> p.base, discount |-> p.discount,
         extras_total |-> p.extras_total, service_fee |-> SERVICE_FEE,
         total |-> p.total]

\* the store error answered without its text
insert_quote_generic(quote_doc, fault) ==
    LET ins == create_document("quote", quote_doc, fault)
    IN  IF ins.raised.some
        THEN Stored(StorageFailure(InternalServerError, {"calculator", "store"}), ins)
        ELSE Stored([status |-> 200, raised |-> "", reached |-> {"calculator", "store"},
                     body |-> [id |-> ins.id] @@ quote_doc], ins)

\* the quote replacing the customer's earlier quotes instead of joining them
insert_quote_upsert(quote_doc, fault) ==
    LET ins == create_document("quote", quote_doc, fault)
    IN  IF ins.raised.some
        THEN Stored(StorageFailure(ins.raised.val, {"calculator", "store"}), ins)
        ELSE [resp |-> [status |-> 200, raised |-> "", reached |-> {"calculator", "store"},
                        body |-> [id |-> ins.id] @@ quote_doc],
              quote |-> <<Last(ins.quote)>>, booking |-> ins.booking,
              next_id |-> ins.next_id]

\* the insert and the answer (main.py 93-97)
insert_quote(quote_doc, fault) ==
    LET ins == create_document("quote", quote_doc, fault)
    IN  IF ins.raised.some
        THEN Stored(StorageFailure(ins.raised.val, {"calculator", "store"}), ins)
        ELSE Stored([status |-> 200, raised |-> "", reached |-> {"calculator", "store"},
                     body |-> [id |-> ins.id] @@ quote_doc], ins)

\* POST /api/quote (main.py 76-97): the calculator runs, then Quote(...)
\* validates, then the store is called
create_quote(q, fault) ==
    IF q.mistyped # {} THEN Same(Unprocessable(q.mistyped))
    ELSE IF Quote_errors(quote_doc_of(q)) # {}
         THEN Same(Unhandled("ValidationError", {"calculator"}))
         ELSE insert_quote(quote_doc_of(q), fault)

DefaultLimit == 50

\* GET /api/quotes (main.py 100-106): the possible responses
list_quotes(limit, fault) ==
    {IF got.raised.some
     THEN StorageFailure(got.raised.val, {"store"})
     ELSE [status |-> 200, raised |-> "", reached |-> {"store"},
           body |-> [i \in 1..Len(got.docs) |-> serialize_doc(got.docs[i])]] :
        got \in get_documents("quote", IF limit.some THEN limit.val ELSE DefaultLimit, fault)}

\* preferred_date is absent or the empty string
NoDate(b) == ~b.preferred_date.some \/ b.preferred_date.val = <<>>

\* the price taken from the calculator instead of the caller
booking_doc_recomputed(b) ==
    [quote_id |-> b.quote_id, name |-> b.name, email |-> email_field(b.email),
     phone |-> b.phone, address |-> b.address, zip_code |-> b.zip_code,
     lawn_size_sqft |-> b.lawn_size_sqft, frequency |-> b.frequency,
     extras |-> b.extras, notes |-> b.notes,
     preferred_date |-> IF NoDate(b) THEN None ELSE fromisoformat(b.preferred_date.val),
     price_total |-> calculate_price(b.lawn_size_sqft, b.frequency, b.extras).total,
     status |-> "confirmed"]

\* the Booking the handler builds (main.py 127-141); its email is the
\* address as EmailStr validated it
booking_doc_of(b) ==
    [quote_id |-> b.quote_id, name |-> b.name, email |-> email_field(b.email),
     phone |-> b.phone, address |-> b.address, zip_code |-> b.zip_code,
     lawn_size_sqft |-> b.lawn_size_sqft, frequency |-> b.frequency,
     extras |-> b.extras, notes |-> b.notes,
     preferred_date |-> IF NoDate(b) THEN None ELSE fromisoformat(b.preferred_date.val),
     price_total |-> b.price_total,
     status |-> "confirmed"]

\* the booking written to the quotes' collection
insert_booking_as_quote(booking_doc, fault) ==
    LET ins == create_document("quote", booking_doc, fault)
    IN  IF ins.raised.some
        THEN Stored(StorageFailure(ins.raised.val, {"store"}), ins)
        ELSE Stored([status |-> 200, raised |-> "", reached |-> {"store"},
                     body |-> [id |-> ins.id] @@ booking_doc], ins)

\* the insert and the answer (main.py 142-146)
insert_booking(booking_doc, fault) ==
    LET ins == create_document("booking", booking_doc, fault)
    IN  IF ins.raised.some
        THEN Stored(StorageFailure(ins.raised.val, {"store"}), ins)
        ELSE Stored([status |-> 200, raised |-> "", reached |-> {"store"},
                     body |-> [id |-> ins.id] @@ booking_doc], ins)

\* POST /api/book (main.py 124-146): the date is parsed, then Booking(...)
\* validates, then the store is called
create_booking(b, fault) ==
    IF b.mistyped # {} THEN Same(Unprocessable(b.mistyped))
    ELSE IF ~NoDate(b) /\ ~fromisoformat(b.preferred_date.val).some
         THEN Same(Unhandled("ValueError", {}))
         ELSE IF Booking_errors(booking_doc_of(b)) # {}
              THEN Same(Unhandled("ValidationError", {}))
              ELSE insert_booking(booking_doc_of(b), fault)

\* the limit not passed on to the store
list_bookings_unlimited(limit, fault) ==
    {IF got.raised.some
     THEN StorageFailure(got.raised.val, {"store"})
     ELSE [status |-> 200, raised |-> "", reached |-> {"store"},
           body |-> [i \in 1..Len(got.docs) |-> serialize_doc(got.docs[i])]] :
        got \in get_documents("booking", Len(booking) + 1, fault)}

\* GET /api/bookings (main.py 149-155): the possible responses
list_bookings(limit, fault) ==
    {IF got.raised.some
     THEN StorageFailure(got.raised.val, {"store"})
     ELSE [status |-> 200, raised |-> "", reached |-> {"store"},
           body |-> [i \in 1..Len(got.docs) |-> serialize_doc(got.docs[i])]] :
        got \in get_documents("booking", IF limit.some THEN limit.val ELSE DefaultLimit, fault)}

CollectionsShown == 10

ErrorShown == 50

\* bool(os.getenv(NAME)): the variable is set, and not to the empty string
getenv_truthy(v) == v.some /\ v.val # ""

\* GET /test up to its try block (main.py 160-186).  `listing` is what
\* db.list_collection_names() does: Some(names), or None where it raises
\* `fault`.  The texts are the code's, without their leading symbol.
test_probe(listing, fault) ==
    LET r0 == [backend |-> "Running", database |-> <<"Not Available">>,
               database_url |-> None, database_name |-> None,
               connection_status |-> "Not Connected", collections |-> <<>>]
        r1 == IF db.some
              THEN [r0 EXCEPT !.database = <<"Available">>,
                              !.database_url = Some("Configured"),
                              !.database_name = Some(db.val.name),
                              !.connection_status = "Connected"]
              ELSE [r0 EXCEPT !.database = <<"Available but not initialized">>]
    IN  IF ~db.some THEN r1
        ELSE IF listing.some
             THEN [r1 EXCEPT !.collections = Take(listing.val, CollectionsShown),
                             !.database = <<"Connected & Working">>]
             ELSE [r1 EXCEPT !.database =
                                <<"Connected but Error: ", Take(fault, ErrorShown)>>]

\* the two fields left as the try block set them
test_database_leaky(env, listing, fault) == test_probe(listing, fault)

\* GET /test (main.py 158-192): the two environment fields are written last,
\* on every path
test_database(env, listing, fault) ==
    [test_probe(listing, fault) EXCEPT
        !.database_url =
            Some(IF getenv_truthy(env.DATABASE_URL) THEN "Set" ELSE "Not Set"),
        !.database_name =
            Some(IF getenv_truthy(env.DATABASE_NAME) THEN "Set" ELSE "Not Set")]

----------------------------------------------------------------------------
(* The inputs.                                                             *)

MaxDocs == 2

MaxStored == 52

GoodEmail == <<"p", "@", "x", ".", "i", "o">>

BadEmails == {<<"p", "x", ".", "i", "o">>, <<"p", "@", "x">>}

\* addresses the schema accepts and holds as GoodEmail
WrappedEmails ==
    {<<" ", "p", "@", "x", ".", "i", "o">>,
     <<"p", "@", "x", ".", "i", "o", " ">>,
     <<"P", "a", "t", " ", "<", "p", "@", "x", ".", "i", "o", ">">>,
     <<"<", "p", "@", "x", ".", "i", "o", ">">>,
     <<"p", "@", "X", ".", "I", "O">>,
     <<"\f", "p", "@", "x", ".", "i", "o">>,
     <<"\"", "a", "\"", " ", "<", "b", ">", " ", "\"", "c", "\"", " ", "<",
       "p", "@", "x", ".", "i", "o", ">">>,
     <<"Z", "o", "ë", " ", "<", "p", "@", "x", ".", "i", "o", ">">>,
     <<"O", Apostrophe, "B", "r", "i", "e", "n", " ", "<", "p", "@", "x", ".", "i", "o", ">">>,
     <<"a", GraveAccent, "b", " ", "<", "p", "@", "x", ".", "i", "o", ">">>}

\* addresses the schema accepts and holds as they are
PlainEmails ==
    {<<"o", Apostrophe, "b", "@", "x", ".", "i", "o">>,
     <<"a", GraveAccent, "b", "@", "x", ".", "i", "o">>}

\* addresses the schema rejects
MoreBadEmails ==
    {<<"p", " ", "@", "x", ".", "i", "o">>,
     <<"p", "@", "x", ".", "t", "e", "s", "t">>,
     <<"p", "@", "x", ".", ".", "i", "o">>,
     <<".", "p", "@", "x", ".", "i", "o">>,
     <<"p", "@", "q", "@", "x", ".", "i", "o">>,
     <<"<", "p", "@", "x", ".", "i", "o">>,
     <<"<", "p", "@", "x", ".", "i", "o", "\n", ">">>,
     [i \in 1..(MAX_EMAIL_LENGTH - 5) |-> " "] \o GoodEmail}

ServerSelectionTimeout ==
    <<"t", "i", "m", "e", "d", " ", "o", "u", "t">> \o [i \in 1..ErrorShown |-> "."]

\* what a store call may do besides succeed
Faults == {None, Some(ServerSelectionTimeout)}

BaseQuote ==
    [mistyped |-> {}, name |-> "Pat", email |-> GoodEmail, address |-> "1 Elm St",
     zip_code |-> "12345", lawn_size_sqft |-> 5000, frequency |-> "weekly",
     extras |-> <<"edging">>]

SmallQuote ==
    [BaseQuote EXCEPT !.zip_code = "1234", !.lawn_size_sqft = 100,
                      !.frequency = "once", !.extras = <<"mulch">>]

\* bodies that break one constraint each
BadQuotes ==
    {[BaseQuote EXCEPT !.mistyped = {"lawn_size_sqft"}]}
    \cup {[BaseQuote EXCEPT !.email = e] : e \in BadEmails}
    \cup {[BaseQuote EXCEPT !.zip_code = z] : z \in {"123", "12345678901"}}
    \cup {[BaseQuote EXCEPT !.lawn_size_sqft = n] : n \in {99, 100001}}
    \cup {[BaseQuote EXCEPT !.frequency = f] : f \in {"monthly", "Weekly"}}

QuoteInputs == {BaseQuote, SmallQuote} \cup BadQuotes

\* every combination of the fields the price depends on
PricingInputs ==
    {[BaseQuote EXCEPT !.lawn_size_sqft = n, !.frequency = f, !.extras = x] :
        n \in {100, 1499, 1500, 1501, 5000, 100000},
        f \in {"once", "biweekly", "weekly"},
        x \in {<<>>, <<"edging">>, <<"mulch">>, <<"edging", "edging">>,
               <<"pet_waste", "aeration", "leaf_cleanup", "edging">>}}

\* each constrained field to either side of its constraint
QuoteFieldInputs ==
    QuoteInputs \cup PricingInputs
    \cup {[BaseQuote EXCEPT !.zip_code = z] : z \in {"1234", "1234567890"}}
    \cup {[BaseQuote EXCEPT !.email = e] : e \in WrappedEmails \cup PlainEmails \cup MoreBadEmails}

BaseBooking ==
    [mistyped |-> {}, quote_id |-> None, name |-> "Pat", email |-> GoodEmail,
     phone |-> "5550123", address |-> "1 Elm St", zip_code |-> "12345",
     lawn_size_sqft |-> 5000, frequency |-> "weekly", extras |-> <<"edging">>,
     notes |-> None, preferred_date |-> None, price_total |-> 1039900]

DatedBooking ==
    [BaseBooking EXCEPT !.quote_id = Some(1), !.zip_code = "123",
                        !.notes = Some("gate code 42"), !.price_total = 10000,
                        !.preferred_date =
                            Some(<<"2", "0", "2", "6", "-", "0", "5", "-", "0", "1">>)]

GoodDates ==
    {<<>>,
     <<"2", "0", "2", "6", "-", "0", "5", "-", "0", "1">>,
     <<"2", "0", "2", "8", "-", "0", "2", "-", "2", "9">>,
     <<"2", "0", "2", "8", "0", "2", "2", "9">>,
     <<"2", "0", "2", "6", "-", "W", "1", "8", "-", "5">>}

\* texts of 10 bytes that are read as a date and what follows it
TrailedDates ==
    {<<"2", "0", "2", "8", "0", "2", "2", "9", "1", "2">>,
     <<"2", "0", "2", "8", "0", "5", "0", "1", "a", "b">>,
     <<"2", "0", "2", "6", "W", "1", "8", "5", "1", "2">>,
     <<"2", "0", "2", "8", "0", "2", "2", "9", "é">>}

BadDates ==
    {<<"2", "0", "2", "6", "-", "0", "2", "-", "3", "0">>,
     <<"M", "a", "y", " ", "1">>}

MoreBadDates ==
    {<<"2", "0", "2", "6", "-", "W", "1", "8", "5", "x">>,
     <<"2", "0", "2", "8", "0", "2", "3", "0", "1", "2">>,
     <<"2", "0", "2", "6", "-", "0", "5", "-", "0", "1", "T">>,
     <<"2", "0", "2", "6", "-", "0", "5">>,
     <<"2", "0", "2", "8", "0", "2", "2", "9", "é", "1">>}

BadBookings ==
    {[BaseBooking EXCEPT !.mistyped = {"price_total"}],
     [BaseBooking EXCEPT !.lawn_size_sqft = 99],
     [BaseBooking EXCEPT !.frequency = "monthly"],
     [BaseBooking EXCEPT !.price_total = -10000]}
    \cup {[BaseBooking EXCEPT !.email = e] : e \in BadEmails}
    \cup {[BaseBooking EXCEPT !.phone = ph] : ph \in {"555012", "555012345678901234567"}}
    \cup {[BaseBooking EXCEPT !.preferred_date = Some(d)] : d \in BadDates}

BookingInputs == {BaseBooking, DatedBooking} \cup BadBookings

BookingFieldInputs ==
    BookingInputs
    \cup {[BaseBooking EXCEPT !.phone = "55501234567890123456"]}
    \cup {[BaseBooking EXCEPT !.zip_code = z] : z \in {"123", "1234", "12345678901"}}
    \cup {[BaseBooking EXCEPT !.preferred_date = Some(d)] :
              d \in GoodDates \cup TrailedDates \cup MoreBadDates}
    \cup {[BaseBooking EXCEPT !.email = e] : e \in WrappedEmails \cup PlainEmails \cup MoreBadEmails}
    \cup {[BaseBooking EXCEPT !.price_total = t] : t \in {0, 10000, 99999900}}

Limits == {None, Some(-1), Some(0), Some(1), Some(2)}

ManyLimits == {None, Some(-1), Some(0), Some(5), Some(DefaultLimit), Some(DefaultLimit + 1)}

DbName == "lawn_db"

EnvUrls == {None, Some(""), Some("mongodb://pat:pw@db.example:27017")}

EnvNames == {None, Some(""), Some(DbName)}

CollectionLists ==
    {<<"quote", "booking">>,
     <<"quote", "booking", "c03", "c04", "c05", "c06", "c07", "c08", "c09", "c10",
       "c11", "c12">>}

----------------------------------------------------------------------------
(* The state machine: one action per route.                                *)

Init ==
    /\ quote = <<>>
    /\ booking = <<>>
    /\ next_id = 1
    /\ db \in {None, Some([name |-> DbName])}
    /\ req = [route |-> "none"]
    /\ resp = [status |-> 0, raised |-> "", reached |-> {}]
    /\ issued = {}
    /\ running = <<>>

\* the handler's outcome r becomes the next state
Answer(route, body, fault, r) ==
    /\ req' = [route |-> route, body |-> body, fault |-> fault]
    /\ resp' = r.resp
    /\ quote' = r.quote
    /\ booking' = r.booking
    /\ next_id' = r.next_id
    /\ issued' = IF r.resp.status = 200 THEN issued \cup {r.resp.body.id} ELSE issued
    /\ UNCHANGED <<db, running>>

\* POST /api/quote with body q, while the store holds fewer than cap documents
PostQuote(q, cap) ==
    \E fault \in Faults :
        \E r \in {create_quote(q, fault)} :
            /\ Len(r.quote) + Len(r.booking) <= cap
            /\ Answer("POST /api/quote", q, fault, r)

\* POST /api/book with body b
PostBooking(b, cap) ==
    \E fault \in Faults :
        \E r \in {create_booking(b, fault)} :
            /\ Len(r.quote) + Len(r.booking) <= cap
            /\ Answer("POST /api/book", b, fault, r)

\* GET /api/quotes, with or without ?limit=
GetQuotes(limits) ==
    \E limit \in limits, fault \in Faults :
        \E r \in list_quotes(limit, fault) :
            /\ req' = [route |-> "GET /api/quotes", limit |-> limit, fault |-> fault]
            /\ resp' = r
            /\ UNCHANGED <<quote, booking, next_id, db, issued, running>>

\* GET /api/bookings
GetBookings(limits) ==
    \E limit \in limits, fault \in Faults :
        \E r \in list_bookings(limit, fault) :
            /\ req' = [route |-> "GET /api/bookings", limit |-> limit, fault |-> fault]
            /\ resp' = r
            /\ UNCHANGED <<quote, booking, next_id, db, issued, running>>

\* GET /test, under each environment and each answer of the store
GetTest ==
    \E url \in EnvUrls, name \in EnvNames,
       listing \in {None} \cup {Some(l) : l \in CollectionLists} :
        LET env == [DATABASE_URL |-> url, DATABASE_NAME |-> name]
        IN  /\ req' = [route |-> "GET /test", env |-> env, listing |-> listing]
            /\ resp' = [status |-> 200, raised |-> "", reached |-> {},
                        body |-> test_database(env, listing, ServerSelectionTimeout)]
            /\ UNCHANGED <<quote, booking, next_id, db, issued, running>>

\* read_root (main.py 39-41)
read_root == [message |-> "Lawn Mowing Backend is running"]

\* GET /
GetRoot ==
    /\ req' = [route |-> "GET /"]
    /\ resp' = [status |-> 200, raised |-> "", reached |-> {}, body |-> read_root]
    /\ UNCHANGED <<quote, booking, next_id, db, issued, running>>

CreateQuote == \E q \in QuoteInputs : PostQuote(q, MaxDocs)

CreateBooking == \E b \in BookingInputs : PostBooking(b, MaxDocs)

ListQuotes == GetQuotes(Limits)

ListBookings == GetBookings(Limits)

Next == GetRoot \/ CreateQuote \/ CreateBooking \/ ListQuotes \/ ListBookings \/ GetTest

Spec == Init /\ [][Next]_vars

\* The first creation on an empty store, over every field value to either
\* side of its constraint and every pricing input, and its read-back.
Empty == quote = <<>> /\ booking = <<>>

FirstQuote == Empty /\ \E q \in QuoteFieldInputs : PostQuote(q, MaxDocs)

FirstBooking == Empty /\ \E b \in BookingFieldInputs : PostBooking(b, MaxDocs)

ReadQuotes == GetQuotes({None})

ReadBookings == GetBookings({None})

NextFirst == FirstQuote \/ FirstBooking \/ ReadQuotes \/ ReadBookings

SpecFirst == Init /\ [][NextFirst]_vars

\* The listing routes over a collection longer than the default limit:
\* one collection is filled with the base body, the other stays empty.
FillQuotes == booking = <<>> /\ PostQuote(BaseQuote, MaxStored)

FillBookings == quote = <<>> /\ PostBooking(BaseBooking, MaxStored)

ListManyQuotes == GetQuotes(ManyLimits)

ListManyBookings == GetBookings(ManyLimits)

NextListing == FillQuotes \/ FillBookings \/ ListManyQuotes \/ ListManyBookings

SpecListing == Init /\ [][NextListing]_vars

\* The creations on worker threads.  The handlers are plain functions, which
\* the framework runs on a thread pool: a request that has built its
\* document may be overtaken by another before it calls the store.  The
\* store call is one step.
MaxRunning == 2

MaxCreated == 4

\* the sequence s without its i-th element
Remove(s, i) == SubSeq(s, 1, i - 1) \o SubSeq(s, i + 1, Len(s))

\* POST /api/quote up to its store call (main.py 76-92): a body that is
\* refused is answered at once, another waits with its document
StartQuote(q) ==
    /\ Len(running) < MaxRunning
    /\ IF q.mistyped # {} \/ Quote_errors(quote_doc_of(q)) # {}
       THEN PostQuote(q, MaxCreated)
       ELSE /\ running' = Append(running, [route |-> "POST /api/quote", body |-> q,
                                            doc |-> quote_doc_of(q), began |-> next_id])
            /\ UNCHANGED <<quote, booking, next_id, db, req, resp, issued>>

\* POST /api/book up to its store call (main.py 124-141)
StartBooking(b) ==
    /\ Len(running) < MaxRunning
    /\ IF \/ b.mistyped # {}
          \/ (~NoDate(b) /\ ~fromisoformat(b.preferred_date.val).some)
          \/ Booking_errors(booking_doc_of(b)) # {}
       THEN PostBooking(b, MaxCreated)
       ELSE /\ running' = Append(running, [route |-> "POST /api/book", body |-> b,
                                            doc |-> booking_doc_of(b), began |-> next_id])
            /\ UNCHANGED <<quote, booking, next_id, db, req, resp, issued>>

\* the store call of the i-th running request and its answer r
Finish(i, fault, r) ==
    /\ Len(r.quote) + Len(r.booking) <= MaxCreated
    /\ req' = [route |-> running[i].route, body |-> running[i].body, fault |-> fault,
               began |-> running[i].began]
    /\ resp' = r.resp
    /\ quote' = r.quote
    /\ booking' = r.booking
    /\ next_id' = r.next_id
    /\ issued' = IF r.resp.status = 200 THEN issued \cup {r.resp.body.id} ELSE issued
    /\ running' = Remove(running, i)
    /\ UNCHANGED db

\* a running POST /api/quote calls the store (main.py 93-97)
FinishQuote ==
    \E i \in 1..Len(running), fault \in Faults :
        /\ running[i].route = "POST /api/quote"
        /\ \E r \in {insert_quote(running[i].doc, fault)} : Finish(i, fault, r)

\* a running POST /api/book calls the store (main.py 142-146)
FinishBooking ==
    \E i \in 1..Len(running), fault \in Faults :
        /\ running[i].route = "POST /api/book"
        /\ \E r \in {insert_booking(running[i].doc, fault)} : Finish(i, fault, r)

StartQuotes == \E q \in {BaseQuote, [BaseQuote EXCEPT !.lawn_size_sqft = 99]} : StartQuote(q)

StartBookings == \E b \in {DatedBooking, [BaseBooking EXCEPT !.price_total = -10000]} : StartBooking(b)

NextThreads == StartQuotes \/ StartBookings \/ FinishQuote \/ FinishBooking

SpecThreads == Init /\ [][NextThreads]_vars

----------------------------------------------------------------------------
(* The properties.                                                         *)

IsPrefix(s, t) == Len(s) <= Len(t) /\ SubSeq(t, 1, Len(s)) = s

\* how often `name` occurs in the list of extras
Count(extras, name) == Cardinality({i \in 1..Len(extras) : extras[i] = name})

Creates == {"POST /api/quote", "POST /api/book"}

Lists == {"GET /api/quotes", "GET /api/bookings"}

\* C1: the quote that POST /api/quote stores and returns carries
\* base_price = max(30.0, lawn_size_sqft * 0.02) (30.0 up to 1500 sqft),
\* discount = base_price * rate (once 0, biweekly 0.05, weekly 0.10),
\* extras_total = the sum of the known extras' prices (edging 10,
\* leaf_cleanup 20, pet_waste 8, any other name 0), service_fee = 3.99 and
\* total = base_price - discount + extras_total + service_fee; 5000 sqft,
\* weekly, [edging] gives 100.0 / 10.0 / 10.0 / 103.99.
C1_QuotePrice ==
    (req.route = "POST /api/quote" /\ resp.status = 200) =>
        LET b == req.body
            o == resp.body
            lawn == b.lawn_size_sqft
            base == IF lawn * 200 > 300000 THEN lawn * 200 ELSE 300000
            rate == CASE b.frequency = "once" -> 0
                      [] b.frequency = "biweekly" -> 5
                      [] b.frequency = "weekly" -> 10
            extras == 100000 * Count(b.extras, "edging")
                      + 200000 * Count(b.extras, "leaf_cleanup")
                      + 80000 * Count(b.extras, "pet_waste")
        IN  /\ lawn \in 100..100000
            /\ o.base_price = base
            /\ (lawn <= 1500 => o.base_price = 300000)
            /\ o.discount * 100 = base * rate
            /\ o.extras_total = extras
            /\ o.service_fee = 39900
            /\ o.total = o.base_price - o.discount + o.extras_total + o.service_fee
            /\ (lawn = 5000 /\ b.frequency = "weekly" /\ b.extras = <<"edging">>
                    => /\ o.base_price = 1000000 /\ o.discount = 100000
                       /\ o.extras_total = 100000 /\ o.total = 1039900)
            /\ Last(quote) = [_id |-> ObjectId(o.id)] @@ [k \in DOMAIN o \ {"id"} |-> o[k]]

\* a floor-priced weekly quote with a known and an unknown extra is stored
C1_Witness ==
    /\ req.route = "POST /api/quote" /\ resp.status = 200
    /\ req.body.lawn_size_sqft = 1500 /\ req.body.frequency = "weekly"
    /\ req.body.extras = <<"pet_waste", "aeration", "leaf_cleanup", "edging">>
    /\ Last(quote).base_price = 300000 /\ Last(quote).discount = 30000
    /\ Last(quote).extras_total = 380000 /\ Last(quote).total = 689900

\* the body breaks a field constraint of the claim's list
FieldViolation(route, b) ==
    \/ ~EmailStr(b.email).some
    \/ Len(b.zip_code) < 4 \/ Len(b.zip_code) > 10
    \/ b.lawn_size_sqft < 100 \/ b.lawn_size_sqft > 100000
    \/ b.frequency \notin {"once", "biweekly", "weekly"}
    \/ /\ route = "POST /api/book"
       /\ \/ Len(b.phone) < 7 \/ Len(b.phone) > 20
          \/ /\ b.preferred_date.some /\ b.preferred_date.val # <<>>
             /\ ~fromisoformat(b.preferred_date.val).some

\* C2: a field-constraint violation in a POST /api/quote or POST /api/book
\* body is rejected before the pricing calculator or the store is reached,
\* as a 422 with field-level detail, never as a 500.
C2_ViolationIs422 ==
    (req.route \in Creates /\ req.body.mistyped = {} /\ FieldViolation(req.route, req.body))
        => resp.status = 422 /\ resp.reached = {}

\* C3: no stored quote and no stored booking has a zip_code shorter than 4
\* or longer than 10 characters.
C3_ZipLength ==
    /\ \A i \in 1..Len(quote) : Len(quote[i].zip_code) \in 4..10
    /\ \A i \in 1..Len(booking) : Len(booking[i].zip_code) \in 4..10

\* C4 as stated: the listing routes never return more than N records for
\* any integer limit N (0 and negative values included), and at most 50
\* without a limit.
C4_AnyLimit ==
    (req.route \in Lists /\ resp.status = 200) =>
        Len(resp.body) <= (IF req.limit.some THEN req.limit.val ELSE 50)

\* C4 amended: the listing routes never return more than N records for
\* every limit N >= 1, and at most 50 without a limit.
C4_PositiveLimit ==
    (req.route \in Lists /\ resp.status = 200 /\ (req.limit.some => req.limit.val >= 1)) =>
        Len(resp.body) <= (IF req.limit.some THEN req.limit.val ELSE 50)

\* 52 bookings are stored and the listing without a limit returns 50
C4_Witness ==
    /\ req.route = "GET /api/bookings" /\ ~req.limit.some /\ resp.status = 200
    /\ Len(booking) = 52 /\ Len(resp.body) = 50

\* C5: under any sequence and any interleaving of creations, each successful
\* creation adds exactly one record, to its own collection, and returns that
\* record's id, which differs from every id a creation returned before and
\* from the id of every record stored before.
C5_OneInsertFreshId ==
    [][/\ (req'.route = "POST /api/quote" /\ resp'.status = 200 /\ resp' # resp) =>
            /\ Len(quote') = Len(quote) + 1
            /\ IsPrefix(quote, quote')
            /\ booking' = booking
            /\ str_oid(Last(quote')._id) = resp'.body.id
            /\ resp'.body.id \notin issued
            /\ \A i \in 1..Len(quote) : quote[i]._id # Last(quote')._id
            /\ \A i \in 1..Len(booking) : booking[i]._id # Last(quote')._id
       /\ (req'.route = "POST /api/book" /\ resp'.status = 200 /\ resp' # resp) =>
            /\ Len(booking') = Len(booking) + 1
            /\ IsPrefix(booking, booking')
            /\ quote' = quote
            /\ str_oid(Last(booking')._id) = resp'.body.id
            /\ resp'.body.id \notin issued
            /\ \A i \in 1..Len(quote) : quote[i]._id # Last(booking')._id
            /\ \A i \in 1..Len(booking) : booking[i]._id # Last(booking')._id
       /\ (resp' = resp) => (quote' = quote /\ booking' = booking)]_vars

\* a quote that began before any id was handed out is stored after a booking
\* that overtook it, under another id, while two more creations are running
C5_Witness ==
    /\ req.route = "POST /api/quote" /\ resp.status = 200 /\ req.began = 1
    /\ Len(quote) = 1 /\ Len(booking) = 1
    /\ booking[1]._id = ObjectId(1) /\ quote[1]._id = ObjectId(2)
    /\ resp.body.id = str_oid(ObjectId(2))
    /\ Cardinality(issued) = 2
    /\ Len(running) = 2

\* C6: when the store call of POST /api/quote, POST /api/book,
\* GET /api/quotes or GET /api/bookings raises, the answer is a 500 whose
\* detail is the raw error text, and both collections stay as they were.
C6_StoreFailureIs500 ==
    [][(/\ req'.route \in Creates \cup Lists
        /\ "store" \in resp'.reached
        /\ (~db.some \/ req'.fault.some))
          => /\ resp'.status = 500
             /\ resp'.detail = (IF ~db.some THEN DatabaseNotAvailable ELSE req'.fault.val)
             /\ quote' = quote
             /\ booking' = booking]_vars

\* a booking failed on the store's error while a quote was already stored
C6_Witness ==
    /\ req.route = "POST /api/book" /\ req.fault = Some(ServerSelectionTimeout)
    /\ resp.status = 500 /\ "store" \in resp.reached
    /\ resp.detail = ServerSelectionTimeout
    /\ Len(quote) = 1 /\ booking = <<>>

\* s is a calendar date written YYYY-MM-DD
ExtendedDate(s) ==
    /\ Len(s) = 10 /\ s[5] = "-" /\ s[8] = "-"
    /\ \A i \in {1, 2, 3, 4, 6, 7, 9, 10} : s[i] \in Digits
    /\ ValidDate(ToInt(s, 1, 4), ToInt(s, 6, 7), ToInt(s, 9, 10))

\* s is a calendar date written YYYYMMDD
BasicDate(s) ==
    /\ Len(s) = 8
    /\ \A i \in 1..8 : s[i] \in Digits
    /\ ValidDate(ToInt(s, 1, 4), ToInt(s, 5, 6), ToInt(s, 7, 8))

\* the booking just created, as the listing that follows returns it
ReadBack(created, listed) == CHOOSE d \in {listed[i] : i \in 1..Len(listed)} : d.id = created.id

CreatedThenListed ==
    /\ req.route = "POST /api/book" /\ resp.status = 200
    /\ req'.route = "GET /api/bookings" /\ resp'.status = 200
    /\ \E i \in 1..Len(resp'.body) : resp'.body[i].id = resp.body.id

\* C7 as stated: a preferred_date that is absent or empty is stored as no
\* preference, and a valid ISO calendar date string comes back from
\* GET /api/bookings as the ISO string that was submitted.
C7_SameString ==
    [][CreatedThenListed =>
        LET p == req.body.preferred_date
            back == ReadBack(resp.body, resp'.body).preferred_date
        IN  /\ (~p.some \/ p.val = <<>>) => (~Last(booking).preferred_date.some /\ ~back.some)
            /\ (p.some /\ (ExtendedDate(p.val) \/ BasicDate(p.val))) => back = p]_vars

\* C7 amended: a preferred_date that is absent or empty is stored as no
\* preference; a valid ISO calendar date string comes back from
\* GET /api/bookings as the same calendar date written YYYY-MM-DD, which is
\* the submitted string when that was written YYYY-MM-DD and the submitted
\* digits with the hyphens put in when it was written YYYYMMDD.
C7_SameDate ==
    [][CreatedThenListed =>
        LET p == req.body.preferred_date
            back == ReadBack(resp.body, resp'.body).preferred_date
        IN  /\ (~p.some \/ p.val = <<>>) => (~Last(booking).preferred_date.some /\ ~back.some)
            /\ (p.some /\ ExtendedDate(p.val)) => back = p
            /\ (p.some /\ BasicDate(p.val)) =>
                  back = Some(SubSeq(p.val, 1, 4) \o <<"-">> \o SubSeq(p.val, 5, 6)
                              \o <<"-">> \o SubSeq(p.val, 7, 8))]_vars

\* a booking for 29 February 2028 is stored and listed as "2028-02-29"
C7_Witness ==
    /\ req.route = "GET /api/bookings" /\ resp.status = 200 /\ Len(resp.body) = 1
    /\ booking[1].preferred_date = Some([year |-> 2028, month |-> 2, day |-> 29])
    /\ resp.body[1].preferred_date =
           Some(<<"2", "0", "2", "8", "-", "0", "2", "-", "2", "9">>)

\* C8: every record once inserted stays in its collection with every field
\* unchanged, and the list routes, GET /test and GET / modify neither
\* collection.
C8_AppendOnly ==
    [][/\ IsPrefix(quote, quote')
       /\ IsPrefix(booking, booking')
       /\ req'.route \in Lists \cup {"GET /test", "GET /"} =>
              (quote' = quote /\ booking' = booking)]_vars

\* two quotes are stored and a listing has returned the first of them
C8_Witness ==
    /\ Len(quote) = 2
    /\ req.route = "GET /api/quotes" /\ resp.status = 200
    /\ Len(resp.body) = 1 /\ resp.body[1].id = str_oid(quote[1]._id)

\* the booking body is valid whatever its price_total, and the store works
OtherwiseValid ==
    /\ req.route = "POST /api/book" /\ req.body.mistyped = {}
    /\ ~FieldViolation(req.route, req.body)
    /\ db.some /\ ~req.fault.some

PriceTrusted ==
    /\ resp.status = 200
    /\ Last(booking).price_total = req.body.price_total
    /\ Last(booking).status = "confirmed"
    /\ resp.body.price_total = req.body.price_total
    /\ resp.body.status = "confirmed"

\* C9 as stated: for every price_total sent with an otherwise valid body the
\* booking is stored with exactly that price_total and status "confirmed";
\* no request is rejected for its price.
C9_AnyPrice == OtherwiseValid => PriceTrusted

\* C9 amended: for every price_total >= 0 sent with an otherwise valid body
\* the booking is stored with exactly that price_total and status
\* "confirmed", whatever the pricing calculator's total for the same lawn
\* size, frequency and extras; a negative price_total is rejected.
C9_NonNegativePrice ==
    OtherwiseValid =>
        IF req.body.price_total >= 0 THEN PriceTrusted ELSE resp.status # 200

\* a booking is stored at a price that is not the calculator's total
C9_Witness ==
    /\ OtherwiseValid /\ PriceTrusted
    /\ Last(booking).price_total = 10000
    /\ calculate_price(req.body.lawn_size_sqft, req.body.frequency, req.body.extras).total
           = 1039900

\* the first 10 collection names when the store lists them, none otherwise
ShownCollections ==
    IF db.some /\ req.listing.some
    THEN SubSeq(req.listing.val, 1, IF Len(req.listing.val) < 10 THEN Len(req.listing.val) ELSE 10)
    ELSE <<>>

\* neither field carries a variable's value or the store's name
NoValueShown ==
    /\ resp.body.database_url \in {Some("Set"), Some("Not Set")}
    /\ resp.body.database_name \in {Some("Set"), Some("Not Set")}
    /\ resp.body.database_url # req.env.DATABASE_URL
    /\ resp.body.database_name # req.env.DATABASE_NAME
    /\ resp.body.database_name # Some(DbName)

\* C10 as stated: on every path through GET /test, database_url and
\* database_name depend only on whether each variable is set, never carry a
\* value or the store's name, and collections holds at most the first 10
\* collection names.
C10_SetOrNot ==
    req.route = "GET /test" =>
        /\ resp.body.database_url =
               Some(IF req.env.DATABASE_URL.some THEN "Set" ELSE "Not Set")
        /\ resp.body.database_name =
               Some(IF req.env.DATABASE_NAME.some THEN "Set" ELSE "Not Set")
        /\ NoValueShown
        /\ resp.body.collections = ShownCollections

\* C10 amended: database_url and database_name depend only on whether each
\* variable is set to a non-empty value (a variable set to the empty string
\* is reported as not set), never carry a value or the store's name, and
\* collections holds at most the first 10 collection names.
C10_NonEmptyOrNot ==
    req.route = "GET /test" =>
        /\ resp.body.database_url =
               Some(IF req.env.DATABASE_URL \notin {None, Some("")} THEN "Set" ELSE "Not Set")
        /\ resp.body.database_name =
               Some(IF req.env.DATABASE_NAME \notin {None, Some("")} THEN "Set" ELSE "Not Set")
        /\ NoValueShown
        /\ resp.body.collections = ShownCollections

\* the store is configured, DATABASE_NAME holds its name, and 12 collections
\* are cut to 10
C10_Witness ==
    /\ req.route = "GET /test" /\ db.some
    /\ req.env.DATABASE_NAME = Some(DbName) /\ ~req.env.DATABASE_URL.some
    /\ req.listing.some /\ Len(req.listing.val) = 12
    /\ Len(resp.body.collections) = 10
    /\ resp.body.database_name = Some("Set") /\ resp.body.database_url = Some("Not Set")

=============================================================================
